---- MODULE Spec2Model ----
(***************************************************************************)
(* Model of the shared MCP activity logger (src/mcp_logger.py) and of the  *)
(* tool entry point that uses it (src/microsoft-master/server.py).         *)
(*                                                                         *)
(* Python values are tagged records [ty, val]; the text of a log line is a *)
(* tagged JSON value, so that json.dumps / json.loads are conversions      *)
(* between two different representations.                                  *)
(***************************************************************************)
EXTENDS Integers, Sequences, FiniteSets, TLC

VARIABLES
    sessionFile,   \* SESSION_LOG_FILE: [exists, lines]
    toolFile,      \* LOG_FILE: [exists, lines]
    registry,      \* content of CONNECTIONS_FILE (read-only)
    now,           \* the wall clock read by datetime.now()
    ret,           \* outcome of the last operation, as seen by its caller
    writer,        \* concurrent writer processes: position in their program
    inflight,      \* the append the filesystem is carrying out, if any
    reader         \* a reader process scanning SESSION_LOG_FILE line by line

vars == <<sessionFile, toolFile, registry, now, ret, writer, inflight, reader>>

\* the state of the concurrent processes
procVars == <<writer, inflight, reader>>

(***************************************************************************)
(* Bounds of the model.                                                    *)
(***************************************************************************)
MaxLog == 2          \* lines a log file may grow to
MaxClock == 1        \* largest clock value
MaxToolLog == 1      \* lines the tool-call log may grow to

(***************************************************************************)
(* Python values.                                                          *)
(***************************************************************************)
None == [ty |-> "NoneType", val |-> ""]
Str(s) == [ty |-> "str", val |-> s]
PyInt(n) == [ty |-> "int", val |-> n]
Float(n) == [ty |-> "float", val |-> n]
Bool(b) == [ty |-> "bool", val |-> b]
Dict(m) == [ty |-> "dict", val |-> m]
List(s) == [ty |-> "list", val |-> s]
\* a value json.dumps has no encoding for (a set, bytes, an object)
Opaque == [ty |-> "object", val |-> ""]

EmptyMap == [k \in {} |-> None]

\* bool(v), as used by `if v and ...` and by `v or default`
Truthy(v) ==
    CASE v.ty = "NoneType" -> FALSE
      [] v.ty = "str" -> v.val /= ""
      [] v.ty = "int" -> v.val /= 0
      [] v.ty = "float" -> v.val /= 0
      [] v.ty = "bool" -> v.val
      [] v.ty = "dict" -> DOMAIN v.val /= {}
      [] v.ty = "list" -> Len(v.val) > 0
      [] OTHER -> TRUE

Max(a, b) == IF a > b THEN a ELSE b
Min(a, b) == IF a < b THEN a ELSE b

\* d.get(k) on a dict d given as a function from keys to values
Get(d, k) == IF k \in DOMAIN d THEN d[k] ELSE None

\* d with d[k] = v (assignment to a dict key, new or existing)
SetKey(d, k, v) == (k :> v) @@ d

(***************************************************************************)
(* JSON text.  json_dumps maps a Python value to the JSON value its text   *)
(* denotes and json_loads maps it back; values make     *)
(* json.dumps raise TypeError.                                             *)
(***************************************************************************)
RECURSIVE Serializable(_)
Serializable(v) ==
    CASE v.ty = "dict" -> \A k \in DOMAIN v.val : Serializable(v.val[k])
      [] v.ty = "list" -> \A i \in 1..Len(v.val) : Serializable(v.val[i])
      [] v.ty = "object" -> FALSE
      [] OTHER -> TRUE

RECURSIVE json_dumps(_)
json_dumps(v) ==
    CASE v.ty = "NoneType" -> [js |-> "null", val |-> ""]
      [] v.ty = "str" -> [js |-> "string", val |-> v.val]
      [] v.ty = "int" -> [js |-> "int", val |-> v.val]
      [] v.ty = "float" -> [js |-> "real", val |-> v.val]
      [] v.ty = "bool" -> [js |-> IF v.val THEN "true" ELSE "false", val |-> ""]
      [] v.ty = "dict" ->
            [js |-> "object", val |-> [k \in DOMAIN v.val |-> json_dumps(v.val[k])]]
      [] v.ty = "list" ->
            [js |-> "array", val |-> [i \in 1..Len(v.val) |-> json_dumps(v.val[i])]]

\* json_loads that reads every number as an int
RECURSIVE json_loads_int_numbers(_)
json_loads_int_numbers(j) ==
    CASE j.js = "null" -> None
      [] j.js = "string" -> Str(j.val)
      [] j.js = "int" -> PyInt(j.val)
      [] j.js = "real" -> PyInt(j.val)
      [] j.js = "true" -> Bool(TRUE)
      [] j.js = "false" -> Bool(FALSE)
      [] j.js = "object" ->
            Dict([k \in DOMAIN j.val |-> json_loads_int_numbers(j.val[k])])
      [] j.js = "array" ->
            List([i \in 1..Len(j.val) |-> json_loads_int_numbers(j.val[i])])

RECURSIVE json_loads(_)
json_loads(j) ==
    CASE j.js = "null" -> None
      [] j.js = "string" -> Str(j.val)
      [] j.js = "int" -> PyInt(j.val)
      [] j.js = "real" -> Float(j.val)
      [] j.js = "true" -> Bool(TRUE)
      [] j.js = "false" -> Bool(FALSE)
      [] j.js = "object" -> Dict([k \in DOMAIN j.val |-> json_loads(j.val[k])])
      [] j.js = "array" -> List([i \in 1..Len(j.val) |-> json_loads(j.val[i])])

(***************************************************************************)
(* Lines of a log file.                                                    *)
(***************************************************************************)
JsonLine(j) == [kind |-> "json", text |-> j]
\* a line that is not valid JSON (torn or foreign write)
Malformed == [kind |-> "malformed", text |-> [js |-> "null", val |-> ""]]
\* a line of white space only
Blank == [kind |-> "blank", text |-> [js |-> "null", val |-> ""]]

\* datetime.now().isoformat()
isoformat(t) == "2026-01-01T00:00:0" \o ToString(t)

(***************************************************************************)
(* _write_log: stamp logged_at, then try to append one JSON line.  fault   *)
(* is the environment's answer: "none", "open" (open() raises: permission  *)
(* denied, directory missing) or "write" (write/flush raises: disk full).  *)
(* Returns the new file and what was written to sys.stderr.                *)
(***************************************************************************)
\* _write_log whose failed write has already put the line in the file
write_log_torn(file, entry, fault) ==
    LET stamped == SetKey(entry, "logged_at", Str(isoformat(now)))
    IN  IF fault = "open"
        THEN [file |-> file, stderr |-> <<"Failed to write log">>]
        ELSE IF ~Serializable(Dict(stamped))
        THEN [file |-> [file EXCEPT !.exists = TRUE],
              stderr |-> <<"Failed to write log">>]
        ELSE [file |-> [exists |-> TRUE,
                        lines |-> Append(file.lines, JsonLine(json_dumps(Dict(stamped))))],
              stderr |-> IF fault = "write" THEN <<"Failed to write log">> ELSE <<>>]

\* _write_log that opens the file with mode "w"
write_log_truncating(file, entry, fault) ==
    LET stamped == SetKey(entry, "logged_at", Str(isoformat(now)))
    IN  IF fault = "open"
        THEN [file |-> file, stderr |-> <<"Failed to write log">>]
        ELSE IF ~Serializable(Dict(stamped)) \/ fault = "write"
        THEN [file |-> [exists |-> TRUE, lines |-> <<>>],
              stderr |-> <<"Failed to write log">>]
        ELSE [file |-> [exists |-> TRUE,
                        lines |-> <<JsonLine(json_dumps(Dict(stamped)))>>],
              stderr |-> <<>>]

\* _write_log that stamps only an entry without logged_at (setdefault)
write_log_keeps_supplied_stamp(file, entry, fault) ==
    LET stamped == IF "logged_at" \in DOMAIN entry THEN entry
                   ELSE SetKey(entry, "logged_at", Str(isoformat(now)))
    IN  IF fault = "open"
        THEN [file |-> file, stderr |-> <<"Failed to write log">>]
        ELSE IF ~Serializable(Dict(stamped)) \/ fault = "write"
        THEN [file |-> [file EXCEPT !.exists = TRUE],
              stderr |-> <<"Failed to write log">>]
        ELSE [file |-> [exists |-> TRUE,
                        lines |-> Append(file.lines, JsonLine(json_dumps(Dict(stamped))))],
              stderr |-> <<>>]

write_log(file, entry, fault) ==
    LET stamped == SetKey(entry, "logged_at", Str(isoformat(now)))
    IN  IF fault = "open"
        THEN [file |-> file, stderr |-> <<"Failed to write log">>]
        ELSE IF ~Serializable(Dict(stamped)) \/ fault = "write"
        THEN [file |-> [file EXCEPT !.exists = TRUE],
              stderr |-> <<"Failed to write log">>]
        ELSE [file |-> [exists |-> TRUE,
                        lines |-> Append(file.lines, JsonLine(json_dumps(Dict(stamped))))],
              stderr |-> <<>>]

WriteFaults == {"none", "open", "write"}

\* what the caller of an operation observes: the value returned or the
\* exception raised ("" when none), the text sent to sys.stderr, and the
\* environment's answer to the write
Outcome(op, args, result, raised, stderr, fault) ==
    [op |-> op, args |-> args, result |-> result, raised |-> raised,
     stderr |-> stderr, fault |-> fault]

(***************************************************************************)
(* log_session_event                                                       *)
(***************************************************************************)
session_entry(event, tenant, module, conversation_id, details, duration_seconds) ==
    [type |-> Str("session_event"),
     event |-> event,
     tenant |-> tenant,
     module |-> module,
     conversation_id |-> conversation_id,
     details |-> IF Truthy(details) THEN details ELSE Dict(EmptyMap),
     duration_seconds |-> duration_seconds]

log_session_event(call, fault) ==
    /\ Len(sessionFile.lines) < MaxLog
    /\ LET entry == session_entry(call.event, call.tenant, call.module,
                                  call.conversation_id, call.details,
                                  call.duration_seconds)
           w == write_log(sessionFile, entry, fault)
       IN  /\ sessionFile' = w.file
           /\ ret' = Outcome("log_session_event", call, None, "", w.stderr, fault)
    /\ UNCHANGED <<toolFile, registry, now, procVars>>

(***************************************************************************)
(* log_tool_call                                                           *)
(***************************************************************************)
PreviewLen == 100

\* s[:stop] for stop >= 0
SliceTo(s, stop) == SubSeq(s, 1, Min(stop, Len(s)))

\* types whose values accept v[:100]
Sliceable(v) == v.ty \in {"str", "list"}

\* arguments.get("command", "")[:100] if "command" in arguments else None
command_preview(arguments) ==
    IF "command" \in DOMAIN arguments
    THEN [ty |-> arguments["command"].ty,
          val |-> SliceTo(arguments["command"].val, PreviewLen)]
    ELSE None

\* {k: v for k, v in arguments.items() if k != "command"}
without_command(arguments) ==
    LET kept == [k \in DOMAIN arguments \ {"command"} |-> arguments[k]]
    IN  kept @@ kept

\* tool_entry that keeps the whole command as the preview
tool_entry_full_command(call) ==
    [type |-> Str("tool_call"),
     mcp |-> call.mcp_name,
     tool |-> call.tool_name,
     connection |-> call.connection_name,
     conversation_id |-> call.conversation_id,
     arguments |-> Dict(without_command(call.arguments)),
     command_preview |-> Get(call.arguments, "command"),
     duration_ms |-> call.duration_ms,
     success |-> Bool(call.error = None),
     error |-> call.error]

\* tool_entry whose success is `not error`
tool_entry_success_by_truthiness(call) ==
    [type |-> Str("tool_call"),
     mcp |-> call.mcp_name,
     tool |-> call.tool_name,
     connection |-> call.connection_name,
     conversation_id |-> call.conversation_id,
     arguments |-> Dict(without_command(call.arguments)),
     command_preview |-> command_preview(call.arguments),
     duration_ms |-> call.duration_ms,
     success |-> Bool(~Truthy(call.error)),
     error |-> call.error]

tool_entry(call) ==
    [type |-> Str("tool_call"),
     mcp |-> call.mcp_name,
     tool |-> call.tool_name,
     connection |-> call.connection_name,
     conversation_id |-> call.conversation_id,
     arguments |-> Dict(without_command(call.arguments)),
     command_preview |-> command_preview(call.arguments),
     duration_ms |-> call.duration_ms,
     success |-> Bool(call.error = None),
     error |-> call.error]

\* the new LOG_FILE, the exception that leaves log_tool_call ("" when it
\* returns) and the text sent to sys.stderr.  Building the entry raises
\* TypeError when the command value cannot be sliced; nothing catches it.
log_tool_call(file, call, fault) ==
    IF "command" \in DOMAIN call.arguments /\ ~Sliceable(call.arguments["command"])
    THEN [file |-> file, raised |-> "TypeError", stderr |-> <<>>]
    ELSE LET w == write_log(file, tool_entry(call), fault)
         IN  [file |-> w.file, raised |-> "", stderr |-> w.stderr]

(***************************************************************************)
(* server.py: text helpers.  Texts are strings; the ESC character (0x1b)   *)
(* is written ESC below.                                                   *)
(***************************************************************************)
ESC == "~"
UpperCase == "ABCDEFGHIJKLMNOPQRSTUVWXYZ"
LowerCase == "abcdefghijklmnopqrstuvwxyz"
Digits == "0123456789"

CharAt(s, i) == SubSeq(s, i, i)
IsIn(c, chars) == \E i \in 1..Len(chars) : CharAt(chars, i) = c

\* str.lower()
LowerOf == [i \in 1..26 |-> CharAt(LowerCase, i)] @@ <<>>
UpperIndex ==
    LET pairs == {<<CharAt(UpperCase, i), i>> : i \in 1..26}
    IN  [c \in {p[1] : p \in pairs} |-> CHOOSE i \in 1..26 : <<c, i>> \in pairs] 
lower_char(c) == IF c \in DOMAIN UpperIndex THEN LowerOf[UpperIndex[c]] ELSE c

RECURSIVE lower(_)
lower(s) ==
    IF Len(s) = 0 THEN ""
    ELSE IF Len(s) = 1 THEN lower_char(s)
    ELSE LET h == Len(s) \div 2
         IN  lower(SubSeq(s, 1, h)) \o lower(SubSeq(s, h + 1, Len(s)))

\* `sub in s`
Contains(s, sub) ==
    \E i \in 1..(Len(s) - Len(sub) + 1) : SubSeq(s, i, i + Len(sub) - 1) = sub

\* str.strip()
IsSpace(c) == c = " " \/ c = "\n" \/ c = "\t" \/ c = "\r"
RECURSIVE strip(_)
strip(s) ==
    IF Len(s) = 0 THEN s
    ELSE IF IsSpace(CharAt(s, 1)) THEN strip(SubSeq(s, 2, Len(s)))
    ELSE IF IsSpace(CharAt(s, Len(s))) THEN strip(SubSeq(s, 1, Len(s) - 1))
    ELSE s

\* length of the longest prefix of s made of characters of chars
RECURSIVE span(_, _)
span(s, chars) ==
    IF Len(s) > 0 /\ IsIn(CharAt(s, 1), chars)
    THEN 1 + span(SubSeq(s, 2, Len(s)), chars)
    ELSE 0

\* re.sub(r'\x1b\[[0-9;]*m', '', s)
RECURSIVE strip_sgr(_)
strip_sgr(s) ==
    IF Len(s) = 0 THEN s
    ELSE LET n == span(SubSeq(s, 3, Len(s)), Digits \o ";")
         IN  IF /\ Len(s) >= 3 + n
                /\ CharAt(s, 1) = ESC
                /\ CharAt(s, 2) = "["
                /\ CharAt(s, 3 + n) = "m"
             THEN strip_sgr(SubSeq(s, 4 + n, Len(s)))
             ELSE CharAt(s, 1) \o strip_sgr(SubSeq(s, 2, Len(s)))

\* re.sub(r'\x1b\[\?[0-9]+[hl]', '', s)
RECURSIVE strip_mode(_)
strip_mode(s) ==
    IF Len(s) = 0 THEN s
    ELSE LET n == span(SubSeq(s, 4, Len(s)), Digits)
         IN  IF /\ Len(s) >= 4 + n
                /\ n >= 1
                /\ CharAt(s, 1) = ESC
                /\ CharAt(s, 2) = "["
                /\ CharAt(s, 3) = "?"
                /\ IsIn(CharAt(s, 4 + n), "hl")
             THEN strip_mode(SubSeq(s, 5 + n, Len(s)))
             ELSE CharAt(s, 1) \o strip_mode(SubSeq(s, 2, Len(s)))

\* str(v) / f"{v}" of a value
to_text(v) ==
    CASE v.ty = "str" -> v.val
      [] v.ty = "int" -> ToString(v.val)
      [] v.ty = "NoneType" -> "None"
      [] OTHER -> "<object>"

\* ', '.join(names), names taken in some order
RECURSIVE join_names(_)
join_names(names) ==
    IF names = {} THEN ""
    ELSE LET n == CHOOSE x \in names : TRUE
         IN  IF names = {n} THEN n ELSE n \o ", " \o join_names(names \ {n})

\* json.dumps(result, indent=2) of a flat object of strings
RECURSIVE json_members(_, _)
json_members(obj, keys) ==
    IF keys = {} THEN ""
    ELSE LET k == CHOOSE x \in keys : TRUE
             member == "  \"" \o k \o "\": \"" \o to_text(obj[k]) \o "\""
         IN  IF keys = {k} THEN member \o "\n"
             ELSE member \o ",\n" \o json_members(obj, keys \ {k})

json_text(obj) == "{\n" \o json_members(obj, DOMAIN obj) \o "}"

(***************************************************************************)
(* server.py: _call_tool_impl.  reg is what load_registry() returns under  *)
(* "connections"; response is what call_pool returns if it is called.      *)
(* Yields the exception raised ("" when none), the TextContent texts       *)
(* returned and the requests sent to the session pool.                     *)
(***************************************************************************)
Returned(texts, pool) == [raised |-> "", message |-> "", result |-> texts, pool |-> pool]
Raised(exception, message, pool) ==
    [raised |-> exception, message |-> message, result |-> <<>>, pool |-> pool]

\* the loop building the list of connections
RECURSIVE listing(_, _)
listing(reg, names) ==
    IF names = {} THEN ""
    ELSE LET conn_name == CHOOSE x \in names : TRUE
             config == reg[conn_name].val
             expected == Get(config, "expectedEmail")
             email_hint == IF Truthy(expected) THEN " [" \o to_text(expected) \o "]" ELSE ""
             tenant == IF "tenant" \in DOMAIN config THEN to_text(config["tenant"])
                       ELSE "unknown"
             description == IF "description" \in DOMAIN config
                            THEN to_text(config["description"]) ELSE ""
         IN  "- **" \o conn_name \o "**: " \o tenant \o email_hint \o "\n"
             \o "  " \o description \o "\n"
             \o listing(reg, names \ {conn_name})

pool_request(connection, module, command) ==
    [connection |-> connection, module |-> module, command |-> command,
     caller_id |-> Str("mm-mcp")]

\* lines 162-199: the text built from the session pool's answer
pool_answer_text(result, conn_config, connection, module) ==
    LET status == Get(result, "status")
        expected_email == IF "expectedEmail" \in DOMAIN conn_config
                          THEN conn_config["expectedEmail"] ELSE Str("")
    IN  IF status = Str("auth_required")
        THEN LET device_code == IF "device_code" \in DOMAIN result
                                THEN to_text(result["device_code"]) ELSE ""
                 tenant == IF "tenant" \in DOMAIN conn_config
                           THEN conn_config["tenant"] ELSE Str("")
                 sign_in_hint ==
                     IF Truthy(expected_email)
                     THEN "\n>>> SIGN IN AS: " \o to_text(expected_email) \o " <<<"
                     ELSE IF Truthy(tenant)
                     THEN "\n>>> Sign in with your @" \o to_text(tenant) \o " account <<<"
                     ELSE ""
             IN  "**DEVICE CODE: " \o device_code
                 \o "**\nGo to: https://microsoft.com/devicelogin\n" \o sign_in_hint
                 \o "\n\nConnection: " \o to_text(connection) \o "\nModule: "
                 \o to_text(module) \o "\n\nAfter authenticating, retry the command."
        ELSE IF status = Str("auth_in_progress")
        THEN "Auth in progress by another caller. Retry in a few seconds."
        ELSE IF status = Str("error")
        THEN "Error: " \o (IF "error" \in DOMAIN result THEN to_text(result["error"])
                           ELSE "Unknown error")
        ELSE IF status = Str("success")
        THEN LET raw == IF "output" \in DOMAIN result THEN to_text(result["output"]) ELSE ""
                 clean == strip_mode(strip_sgr(raw))
                 authenticated_as == Get(result, "authenticated_as")
                 output ==
                     IF /\ Truthy(authenticated_as)
                        /\ Truthy(expected_email)
                        /\ lower(to_text(expected_email)) /= lower(to_text(authenticated_as))
                     THEN "WARNING: Wrong account! Expected " \o to_text(expected_email)
                          \o ", got " \o to_text(authenticated_as) \o "\n\n" \o clean
                     ELSE clean
             IN  IF strip(output) /= "" THEN strip(output) ELSE "(no output)"
        ELSE json_text(result)

\* _call_tool_impl that sends the request before it looks up the registry
call_tool_impl_pool_before_registry(name, arguments, reg, response) ==
    IF name /= "run" THEN Returned(<<"Unknown tool: " \o name>>, <<>>)
    ELSE
    LET connection == Get(arguments, "connection")
        module == Get(arguments, "module")
        command == Get(arguments, "command")
        request == pool_request(connection, module, command)
    IN  IF ~Truthy(connection) /\ ~Truthy(module) /\ ~Truthy(command)
        THEN Returned(<<"**Available Connections:**\n" \o listing(reg, DOMAIN reg)>>, <<>>)
        ELSE IF ~(Truthy(connection) /\ Truthy(module) /\ Truthy(command))
        THEN Returned(<<"Error: connection, module, and command are all required">>, <<>>)
        ELSE IF ~(/\ connection.ty = "str"
                  /\ connection.val \in DOMAIN reg
                  /\ Truthy(reg[connection.val]))
        THEN Returned(<<"Error: Connection '" \o to_text(connection)
                        \o "' not found in registry.\nAvailable: "
                        \o join_names(DOMAIN reg)
                        \o "\n\nConnections must be pre-created in ~/.m365-connections.json">>,
                      <<request>>)
        ELSE IF response.ty /= "dict"
             THEN Raised("AttributeError", "'list' object has no attribute 'get'",
                         <<request>>)
             ELSE Returned(<<pool_answer_text(response.val, reg[connection.val].val,
                                              connection, module)>>,
                           <<request>>)

call_tool_impl(name, arguments, reg, response) ==
    IF name /= "run" THEN Returned(<<"Unknown tool: " \o name>>, <<>>)
    ELSE
    LET connection == Get(arguments, "connection")
        module == Get(arguments, "module")
        command == Get(arguments, "command")
    IN  IF ~Truthy(connection) /\ ~Truthy(module) /\ ~Truthy(command)
        THEN Returned(<<"**Available Connections:**\n" \o listing(reg, DOMAIN reg)>>, <<>>)
        ELSE IF ~(Truthy(connection) /\ Truthy(module) /\ Truthy(command))
        THEN Returned(<<"Error: connection, module, and command are all required">>, <<>>)
        ELSE IF ~(/\ connection.ty = "str"
                  /\ connection.val \in DOMAIN reg
                  /\ Truthy(reg[connection.val]))
        THEN Returned(<<"Error: Connection '" \o to_text(connection)
                        \o "' not found in registry.\nAvailable: "
                        \o join_names(DOMAIN reg)
                        \o "\n\nConnections must be pre-created in ~/.m365-connections.json">>,
                      <<>>)
        ELSE LET request == pool_request(connection, module, command)
             IN  IF response.ty /= "dict"
                 THEN Raised("AttributeError", "'list' object has no attribute 'get'",
                             <<request>>)
                 ELSE Returned(<<pool_answer_text(response.val, reg[connection.val].val,
                                                  connection, module)>>,
                               <<request>>)

(***************************************************************************)
(* server.py: call_tool.  The finally block logs the call; an exception    *)
(* raised there replaces the result or the exception of the dispatch.      *)
(***************************************************************************)
call_tool(file, name, arguments, reg, response, elapsed_ms, fault) ==
    LET connection_name == Get(arguments, "connection")
        impl == call_tool_impl(name, arguments, reg, response)
        text == IF impl.raised = "" /\ Len(impl.result) > 0
                THEN SliceTo(impl.result[1], PreviewLen) ELSE ""
        is_error == Contains(lower(text), "error")
        error_msg == IF impl.raised /= "" THEN Str(impl.message)
                     ELSE IF Len(impl.result) > 0 /\ is_error THEN Str(text)
                     ELSE None
        result_summary == IF impl.raised = "" /\ Len(impl.result) > 0 /\ ~is_error
                          THEN Str(text) ELSE None
        call == [mcp_name |-> Str("mm"), tool_name |-> Str(name),
                 arguments |-> arguments, connection_name |-> connection_name,
                 conversation_id |-> None, result |-> result_summary,
                 error |-> error_msg, duration_ms |-> PyInt(elapsed_ms)]
        logged == log_tool_call(file, call, fault)
    IN  [file |-> logged.file,
         raised |-> IF logged.raised /= "" THEN logged.raised ELSE impl.raised,
         result |-> IF logged.raised /= "" THEN <<>> ELSE impl.result,
         stderr |-> logged.stderr,
         dispatch |-> impl,
         logged |-> call]

(***************************************************************************)
(* get_session_history                                                     *)
(***************************************************************************)
\* s[start:] with Python's treatment of negative and out-of-range indices
SliceFrom(s, start) ==
    LET n == Len(s)
        st == IF start < 0 THEN Max(n + start, 0) ELSE Min(start, n)
    IN  SubSeq(s, st + 1, n)

\* passes_filters without the event test
passes_filters_no_event(entry, tenant, module, conversation_id, event) ==
    /\ ~(Truthy(tenant) /\ Get(entry, "tenant") /= tenant)
    /\ ~(Truthy(module) /\ Get(entry, "module") /= module)
    /\ ~(Truthy(conversation_id) /\ Get(entry, "conversation_id") /= conversation_id)

\* the four `if f and entry.get(...) != f: continue` tests
passes_filters(entry, tenant, module, conversation_id, event) ==
    /\ ~(Truthy(tenant) /\ Get(entry, "tenant") /= tenant)
    /\ ~(Truthy(module) /\ Get(entry, "module") /= module)
    /\ ~(Truthy(conversation_id) /\ Get(entry, "conversation_id") /= conversation_id)
    /\ ~(Truthy(event) /\ Get(entry, "event") /= event)

\* history_scan that gives up at a line of invalid JSON (break, not continue)
RECURSIVE history_scan_stops_at_malformed(_, _, _, _, _, _)
history_scan_stops_at_malformed(lines, i, tenant, module, conversation_id, event) ==
    IF i = 0 THEN <<>>
    ELSE LET rest == history_scan_stops_at_malformed(lines, i - 1, tenant, module,
                                                     conversation_id, event)
             line == lines[i]
         IN  IF \E j \in 1..(i - 1) : lines[j].kind = "malformed" THEN rest
             ELSE IF line.kind = "blank" THEN rest
             ELSE IF line.kind = "malformed" THEN rest
             ELSE LET entry == json_loads(line.text).val
                  IN  IF passes_filters(entry, tenant, module, conversation_id, event)
                      THEN Append(rest, entry)
                      ELSE rest

\* the `for line in f` loop over lines 1..i: the list `results`
RECURSIVE history_scan(_, _, _, _, _, _)
history_scan(lines, i, tenant, module, conversation_id, event) ==
    IF i = 0 THEN <<>>
    ELSE LET rest == history_scan(lines, i - 1, tenant, module, conversation_id, event)
             line == lines[i]
         IN  IF line.kind = "blank" THEN rest
             ELSE IF line.kind = "malformed" THEN rest
             ELSE LET entry == json_loads(line.text).val
                  IN  IF passes_filters(entry, tenant, module, conversation_id, event)
                      THEN Append(rest, entry)
                      ELSE rest

get_session_history(file, tenant, module, conversation_id, event, limit) ==
    IF ~file.exists THEN <<>>
    ELSE SliceFrom(history_scan(file.lines, Len(file.lines), tenant, module,
                                conversation_id, event), -limit)

(***************************************************************************)
(* get_orphan_sessions                                                     *)
(***************************************************************************)
\* dict_put that keeps the first entry of a key (setdefault)
dict_put_keep_first(items, key, entry) ==
    IF \E j \in 1..Len(items) : items[j].key = key
    THEN items
    ELSE Append(items, [key |-> key, entry |-> entry])

\* sessions[key] = entry on a dict kept as the sequence of its items in
\* insertion order: an existing key keeps its place
dict_put(items, key, entry) ==
    IF \E j \in 1..Len(items) : items[j].key = key
    THEN [j \in 1..Len(items) |->
            IF items[j].key = key THEN [key |-> key, entry |-> entry] ELSE items[j]]
    ELSE Append(items, [key |-> key, entry |-> entry])

\* the first loop: the dict `sessions` after lines 1..i
RECURSIVE scan_sessions(_, _)
scan_sessions(lines, i) ==
    IF i = 0 THEN <<>>
    ELSE LET rest == scan_sessions(lines, i - 1)
             line == lines[i]
         IN  IF line.kind = "blank" THEN rest
             ELSE IF line.kind = "malformed" THEN rest
             ELSE LET entry == json_loads(line.text).val
                      key == <<Get(entry, "tenant"), Get(entry, "module")>>
                  IN  dict_put(rest, key, entry)

\* only session_killed counts as terminal
TerminalEvents_killed_only == {Str("session_killed")}

TerminalEvents == {Str("session_killed"), Str("session_disconnected")}

\* orphan_filter without the terminal-event test
RECURSIVE orphan_filter_no_terminal(_, _, _)
orphan_filter_no_terminal(items, i, active_conversations) ==
    IF i = 0 THEN <<>>
    ELSE LET rest == orphan_filter_no_terminal(items, i - 1, active_conversations)
             entry == items[i].entry
             conv_id == Get(entry, "conversation_id")
         IN  IF Truthy(conv_id) /\ conv_id \notin active_conversations
             THEN Append(rest, entry)
             ELSE rest

\* the second loop: `results` after the first i items of sessions
RECURSIVE orphan_filter(_, _, _)
orphan_filter(items, i, active_conversations) ==
    IF i = 0 THEN <<>>
    ELSE LET rest == orphan_filter(items, i - 1, active_conversations)
             entry == items[i].entry
             conv_id == Get(entry, "conversation_id")
         IN  IF Get(entry, "event") \in TerminalEvents THEN rest
             ELSE IF Truthy(conv_id) /\ conv_id \notin active_conversations
             THEN Append(rest, entry)
             ELSE rest

get_orphan_sessions(file, active_conversations) ==
    IF ~file.exists THEN <<>>
    ELSE LET sessions == scan_sessions(file.lines, Len(file.lines))
         IN  orphan_filter(sessions, Len(sessions), active_conversations)

(***************************************************************************)
(* Inputs.                                                                 *)
(***************************************************************************)
TM == <<Str("T"), Str("M")>>
TN == <<Str("T"), Str("N")>>
UM == <<Str("U"), Str("M")>>

SessionCall(event, key, conversation_id, details, duration_seconds) ==
    [event |-> event, tenant |-> key[1], module |-> key[2],
     conversation_id |-> conversation_id, details |-> details,
     duration_seconds |-> duration_seconds]

\* the calls of log_session_event the model makes
SessionCalls ==
    {SessionCall(Str("authenticated"), TM, Str("C1"), None, None),
     SessionCall(Str("authenticated"), TM, None, None, None),
     SessionCall(Str("authenticated"), TM, Str(""), None, None),
     SessionCall(Str("session_killed"), TM, Str("C1"), None, None),
     SessionCall(Str("session_disconnected"), TM, Str("C1"), None, None),
     SessionCall(Str("session_idle"), TM, Str("C2"), None, None),
     SessionCall(Str("authenticated"), TN, Str("C1"), None, None),
     SessionCall(Str("session_killed"), TN, Str("C2"), None, None),
     SessionCall(Str("authenticated"), UM, Str("C2"), None, None),
     SessionCall(Str("session_disconnected"), UM, None, None, None),
     SessionCall(Str("command_run"), UM, Str("C1"),
                 Dict([k \in {"attempt"} |-> PyInt(1)]), Float(2)),
     SessionCall(Str("session_start"), TN, Str("C1"),
                 Dict([k \in {"handle"} |-> Opaque]), None)}

DefaultLimit == 100

Query(tenant, module, conversation_id, event, limit) ==
    [tenant |-> tenant, module |-> module, conversation_id |-> conversation_id,
     event |-> event, limit |-> limit]

\* every combination of filter values and limits the properties range over
AllQueryArgs ==
    [tenant : {None, Str(""), Str("T")},
     module : {None, Str(""), Str("M")},
     conversation_id : {None, Str(""), Str("C1")},
     event : {None, Str(""), Str("session_killed")},
     limit : {0, 1, 2, DefaultLimit}]

\* the calls of get_session_history the model makes
QueryArgs ==
    {Query(None, None, None, None, l) : l \in {0, 1, 2, DefaultLimit}}
    \cup {Query(Str("T"), None, None, None, l) : l \in {1, DefaultLimit}}
    \cup {Query(None, None, Str("C1"), None, l) : l \in {0, 2}}
    \cup {Query(Str(""), None, None, None, DefaultLimit),
          Query(None, Str("M"), None, None, DefaultLimit),
          Query(None, Str(""), None, None, DefaultLimit),
          Query(None, None, Str(""), None, DefaultLimit),
          Query(None, None, None, Str("session_killed"), DefaultLimit),
          Query(None, None, None, Str(""), DefaultLimit),
          Query(Str("T"), Str("M"), None, None, DefaultLimit),
          Query(Str("T"), Str("M"), Str("C1"), Str("session_killed"), DefaultLimit)}

ActiveSets == SUBSET {Str("C1"), Str("C2")}

\* a command of n characters
RECURSIVE CommandText(_)
CommandText(n) == IF n = 0 THEN "" ELSE CommandText(n - 1) \o "x"

Arguments(connection, module, command) ==
    [connection |-> connection, module |-> module, command |-> command]

\* the arguments mappings given to log_tool_call and call_tool
ToolArguments ==
    {EmptyMap,
     Arguments(Str("ForIT-GA"), Str("exo"), Str("Get-Mailbox")),
     Arguments(Str("ForIT-GA"), Str("exo"), Str(CommandText(PreviewLen))),
     Arguments(Str("ForIT-GA"), Str("exo"), Str(CommandText(PreviewLen + 1))),
     Arguments(Str("Other"), Str("exo"), Str("Get-Mailbox")),
     Arguments(Str("ForIT-GA"), Str("exo"), PyInt(7)),
     [k \in {"connection"} |-> Str("ForIT-GA")],
     [k \in {"command"} |-> None],
     [k \in {"connection", "handle"} |->
        IF k = "connection" THEN Str("ForIT-GA") ELSE Opaque]}

ToolCall(arguments, error) ==
    [mcp_name |-> Str("mm"), tool_name |-> Str("run"), arguments |-> arguments,
     connection_name |-> Get(arguments, "connection"), conversation_id |-> None,
     result |-> None, error |-> error, duration_ms |-> PyInt(7)]

\* the calls of log_tool_call the model makes
ToolCalls ==
    {ToolCall(a, None) : a \in ToolArguments}
    \cup {ToolCall(Arguments(Str("ForIT-GA"), Str("exo"), Str("Get-Mailbox")), Str("Error: boom")),
          ToolCall(EmptyMap, Str(""))}

PoolAnswer(status, extra) ==
    Dict([k \in {"status"} \cup DOMAIN extra |->
            IF k = "status" THEN Str(status) ELSE extra[k]])

\* what call_pool can return
PoolResponses ==
    {PoolAnswer("success", [k \in {"output"} |-> Str(ESC \o "[0;32mok" \o ESC \o "[0m\n")]),
     PoolAnswer("success", [k \in {"output", "authenticated_as"} |->
                              IF k = "output" THEN Str("") ELSE Str("Other@forit.io")]),
     PoolAnswer("auth_required", [k \in {"device_code"} |-> Str("ABC123")]),
     PoolAnswer("auth_in_progress", EmptyMap),
     PoolAnswer("error", [k \in {"error"} |-> Str("Request timed out")]),
     PoolAnswer("queued", EmptyMap),
     List(<<>>)}

Durations == {7}

Invocation(name, arguments, response) ==
    [name |-> name, arguments |-> arguments, response |-> response]

ValidArguments == Arguments(Str("ForIT-GA"), Str("exo"), Str("Get-Mailbox"))

\* the invocations of call_tool the model makes: every arguments mapping
\* with one answer of the pool, and every answer for a valid request
ToolInvocations ==
    {Invocation("run", a, PoolAnswer("auth_in_progress", EmptyMap)) : a \in ToolArguments}
    \cup {Invocation("run", ValidArguments, r) : r \in PoolResponses}
    \cup {Invocation("list", ValidArguments, PoolAnswer("auth_in_progress", EmptyMap)),
          Invocation("list", [k \in {"command"} |-> None],
                     PoolAnswer("auth_in_progress", EmptyMap))}

\* a line left in the file by an earlier run of log_session_event
PriorLine(call) ==
    JsonLine(json_dumps(Dict(SetKey(
        session_entry(call.event, call.tenant, call.module, call.conversation_id,
                      call.details, call.duration_seconds),
        "logged_at", Str(isoformat(0))))))

PriorCall == SessionCall(Str("authenticated"), TM, Str("C1"), None, None)

InitialSessionFiles ==
    {[exists |-> FALSE, lines |-> <<>>],
     [exists |-> TRUE, lines |-> <<>>],
     [exists |-> TRUE, lines |-> <<Malformed>>],
     [exists |-> TRUE, lines |-> <<Blank>>],
     [exists |-> TRUE, lines |-> <<PriorLine(PriorCall), Malformed>>]}

\* contents of ~/.m365-connections.json as load_registry returns them: the
\* "connections" mapping (empty when the file is missing or not JSON)
ConnectionConfig(tenant, expectedEmail) ==
    Dict([k \in {"tenant", "expectedEmail", "description"} |->
            CASE k = "tenant" -> Str(tenant)
              [] k = "expectedEmail" -> Str(expectedEmail)
              [] k = "description" -> Str("")])

Registries ==
    {EmptyMap,
     [c \in {"ForIT-GA"} |-> ConnectionConfig("forit.io", "admin@forit.io")]}

(***************************************************************************)
(* Concurrent processes.  Each writer process runs a program of            *)
(* log_session_event calls; a reader process runs one read.                *)
(***************************************************************************)
Writers == {"w1", "w2"}

\* a writer that has called nothing yet: next is the index of its next
\* call, ok the indices of the calls whose line reached the file
IdleWriter == [pc |-> "idle", next |-> 1, ok |-> <<>>]

\* no append in progress
NoAppend == [by |-> "", line |-> Blank, phase |-> "none"]

\* no read in progress
IdleReader ==
    [pc |-> "idle", op |-> "", args |-> None, pos |-> 0, consumed |-> "none",
     seen |-> <<>>]

(***************************************************************************)
(* Actions.                                                                *)
(***************************************************************************)
Init ==
    /\ sessionFile \in InitialSessionFiles
    /\ toolFile = [exists |-> FALSE, lines |-> <<>>]
    /\ now = 0
    /\ registry \in Registries
    /\ ret = Outcome("init", None, None, "", <<>>, "none")
    /\ writer = [w \in Writers |-> IdleWriter]
    /\ inflight = NoAppend
    /\ reader = IdleReader

\* log_session_event on one of the given calls
LogSessionEventOf(calls) ==
    \E call \in calls, fault \in WriteFaults : log_session_event(call, fault)

\* a get_session_history that leaves a trace of the read in the file system
GetSessionHistoryOf_leaving_trace(queries) ==
    /\ \E a \in queries :
          ret' = Outcome("get_session_history", a,
                         get_session_history(sessionFile, a.tenant, a.module,
                                             a.conversation_id, a.event, a.limit),
                         "", <<>>, "none")
    /\ toolFile' = [toolFile EXCEPT !.exists = TRUE]
    /\ UNCHANGED <<sessionFile, registry, now, procVars>>

\* get_session_history on one of the given argument tuples
GetSessionHistoryOf(queries) ==
    /\ \E a \in queries :
          ret' = Outcome("get_session_history", a,
                         get_session_history(sessionFile, a.tenant, a.module,
                                             a.conversation_id, a.event, a.limit),
                         "", <<>>, "none")
    /\ UNCHANGED <<sessionFile, toolFile, registry, now, procVars>>

\* a get_orphan_sessions that opens the file for appending
GetOrphanSessionsOf_creating_file(actives) ==
    /\ \E active \in actives :
          ret' = Outcome("get_orphan_sessions", active,
                         get_orphan_sessions(sessionFile, active), "", <<>>, "none")
    /\ sessionFile' = [sessionFile EXCEPT !.exists = TRUE]
    /\ UNCHANGED <<toolFile, registry, now, procVars>>

\* get_orphan_sessions on one of the given active sets
GetOrphanSessionsOf(actives) ==
    /\ \E active \in actives :
          ret' = Outcome("get_orphan_sessions", active,
                         get_orphan_sessions(sessionFile, active), "", <<>>, "none")
    /\ UNCHANGED <<sessionFile, toolFile, registry, now, procVars>>

\* a log_tool_call that writes to SESSION_LOG_FILE
LogToolCallOf_session_file(calls) ==
    /\ Len(sessionFile.lines) < MaxLog
    /\ \E call \in calls, fault \in WriteFaults :
          \E l \in {log_tool_call(sessionFile, call, fault)} :
              /\ sessionFile' = l.file
              /\ ret' = Outcome("log_tool_call", call, None, l.raised, l.stderr, fault)
    /\ UNCHANGED <<toolFile, registry, now, procVars>>

\* log_tool_call on one of the given calls
LogToolCallOf(calls) ==
    /\ Len(toolFile.lines) < MaxToolLog
    /\ \E call \in calls, fault \in WriteFaults :
          \E l \in {log_tool_call(toolFile, call, fault)} :
              /\ toolFile' = l.file
              /\ ret' = Outcome("log_tool_call", call, None, l.raised, l.stderr, fault)
    /\ UNCHANGED <<sessionFile, registry, now, procVars>>

\* call_tool on one of the given invocations
CallToolOf(invocations) ==
    /\ Len(toolFile.lines) < MaxToolLog
    /\ \E inv \in invocations, elapsed_ms \in Durations, fault \in WriteFaults :
          \E c \in {call_tool(toolFile, inv.name, inv.arguments, registry,
                              inv.response, elapsed_ms, fault)} :
              /\ toolFile' = c.file
              /\ ret' = [op |-> "call_tool",
                         args |-> [name |-> inv.name, arguments |-> inv.arguments],
                         result |-> c.result, raised |-> c.raised,
                         stderr |-> c.stderr, fault |-> fault,
                         dispatch |-> c.dispatch, logged |-> c.logged]
    /\ UNCHANGED <<sessionFile, registry, now, procVars>>

LogSessionEvent == LogSessionEventOf(SessionCalls)
GetSessionHistory == GetSessionHistoryOf(QueryArgs)
GetOrphanSessions == GetOrphanSessionsOf(ActiveSets)
LogToolCall == LogToolCallOf(ToolCalls)
CallTool == CallToolOf(ToolInvocations)

\* time passes
Tick ==
    /\ now < MaxClock
    /\ now' = now + 1
    /\ UNCHANGED <<sessionFile, toolFile, registry, ret, procVars>>

NextOrphan == LogSessionEvent \/ GetOrphanSessions
SpecOrphan == Init /\ [][NextOrphan]_vars

NextHistory == LogSessionEvent \/ GetSessionHistory
SpecHistory == Init /\ [][NextHistory]_vars

NextTool == LogToolCall \/ CallTool
SpecTool == Init /\ [][NextTool]_vars

(***************************************************************************)
(* The whole subsystem: the four operations of the logger and the tool     *)
(* entry point, each on a core of its inputs.                              *)
(***************************************************************************)
CoreSessionCalls ==
    {SessionCall(Str("authenticated"), TM, Str("C1"), None, None),
     SessionCall(Str("session_killed"), TM, Str("C1"), None, None),
     SessionCall(Str("session_start"), TN, Str("C1"),
                 Dict([k \in {"handle"} |-> Opaque]), None)}

CoreToolCalls ==
    {ToolCall(ValidArguments, None),
     ToolCall([k \in {"command"} |-> None], None),
     ToolCall([k \in {"handle"} |-> Opaque], None)}

CoreInvocations ==
    {Invocation("run", ValidArguments, PoolAnswer("auth_in_progress", EmptyMap)),
     Invocation("run", EmptyMap, PoolAnswer("auth_in_progress", EmptyMap))}

CoreQueries ==
    {Query(None, None, None, None, DefaultLimit),
     Query(Str("T"), None, None, Str("session_killed"), 1)}

CoreActiveSets == {{}, {Str("C1")}}

RecordSessionEvent == LogSessionEventOf(CoreSessionCalls)
RecordToolCall == LogToolCallOf(CoreToolCalls)
HandleToolCall == CallToolOf(CoreInvocations)
QuerySessionHistory == GetSessionHistoryOf(CoreQueries)
FindOrphanSessions == GetOrphanSessionsOf(CoreActiveSets)

Next ==
    \/ RecordSessionEvent
    \/ RecordToolCall
    \/ HandleToolCall
    \/ QuerySessionHistory
    \/ FindOrphanSessions
    \/ Tick
Spec == Init /\ [][Next]_vars

\* a time stamp a caller put in the entry it hands to _write_log
SuppliedStamp == Str("1999-12-31T23:59:59")

\* entries handed to _write_log by a caller other than the two recorders
RawEntries ==
    {[type |-> Str("note")],
     [type |-> Str("note"), logged_at |-> SuppliedStamp],
     [type |-> Str("note"), logged_at |-> None]}

\* _write_log(filepath, entry) called on its own, on either log file
WriteLog ==
    \E entry \in RawEntries, fault \in WriteFaults :
        \/ /\ Len(sessionFile.lines) < MaxLog
           /\ \E w \in {write_log(sessionFile, entry, fault)} :
                 /\ sessionFile' = w.file
                 /\ ret' = Outcome("_write_log", entry, None, "", w.stderr, fault)
           /\ UNCHANGED <<toolFile, registry, now, procVars>>
        \/ /\ Len(toolFile.lines) < MaxToolLog
           /\ \E w \in {write_log(toolFile, entry, fault)} :
                 /\ toolFile' = w.file
                 /\ ret' = Outcome("_write_log", entry, None, "", w.stderr, fault)
           /\ UNCHANGED <<sessionFile, registry, now, procVars>>

\* the writers and the clock
NextStamp ==
    \/ WriteLog
    \/ RecordSessionEvent
    \/ RecordToolCall
    \/ Tick
SpecStamp == Init /\ [][NextStamp]_vars

\* the logger alone: its two writers and its two readers
NextLogs ==
    \/ RecordSessionEvent
    \/ RecordToolCall
    \/ QuerySessionHistory
    \/ FindOrphanSessions
SpecLogs == Init /\ [][NextLogs]_vars

(***************************************************************************)
(* Concurrent writers and a reader on SESSION_LOG_FILE.  A writer's append *)
(* (open "a", one write of the text of the line, close) is carried out by  *)
(* the filesystem without another append's bytes in between: one append is *)
(* in flight at a time.  A reader is not excluded: it sees the bytes of the *)
(* append in flight that have reached the file.                            *)
(***************************************************************************)
MaxAppends == 3      \* calls the writer processes make in total

LifecycleEvents == <<"session_start", "authenticated", "session_idle", "command_run">>

Conversation(w) == IF w = "w1" THEN Str("C1") ELSE Str("C2")
SessionKey(w) == IF w = "w1" THEN TM ELSE TN

\* the n-th call of log_session_event in the program of writer w
WriterCall(w, n) ==
    SessionCall(Str(LifecycleEvents[((n - 1) % Len(LifecycleEvents)) + 1]),
                SessionKey(w), Conversation(w),
                Dict([k \in {"attempt"} |-> PyInt(n)]), None)

\* f.write at the end of the file as the filesystem finds it (mode "a")
\* a write at the offset of the last line instead of the end of the file
append_bytes_at_stale_offset(lines, line) ==
    IF Len(lines) = 0 THEN <<line>> ELSE [lines EXCEPT ![Len(lines)] = line]

append_bytes(lines, line) == Append(lines, line)

\* calls the writers in ws have finished
RECURSIVE Finished(_)
Finished(ws) ==
    IF ws = {} THEN 0
    ELSE LET w == CHOOSE x \in ws : TRUE
         IN  (writer[w].next - 1) + Finished(ws \ {w})

\* log_session_event up to the start of f.write: the entry is built and
\* stamped, the file is opened (and created), the text of the line is ready
WriterBegin(w) ==
    /\ writer[w].pc = "idle"
    /\ Finished(Writers) < MaxAppends
    /\ inflight = NoAppend
    /\ \E fault \in WriteFaults :
          LET call == WriterCall(w, writer[w].next)
              entry == session_entry(call.event, call.tenant, call.module,
                                     call.conversation_id, call.details,
                                     call.duration_seconds)
              attempt == write_log([exists |-> sessionFile.exists, lines |-> <<>>],
                                   entry, fault)
          IN  IF Len(attempt.file.lines) = 0
              THEN /\ sessionFile' = [sessionFile EXCEPT !.exists = attempt.file.exists]
                   /\ writer' = [writer EXCEPT ![w].next = @ + 1]
                   /\ UNCHANGED inflight
              ELSE /\ sessionFile' = [sessionFile EXCEPT !.exists = TRUE]
                   /\ writer' = [writer EXCEPT ![w].pc = "appending"]
                   /\ inflight' = [by |-> w, line |-> attempt.file.lines[1],
                                   phase |-> "partial"]
    /\ UNCHANGED <<toolFile, registry, now, ret, reader>>

\* the bytes of the JSON text have reached the file, the newline has not
WriterProgress(w) ==
    /\ inflight.by = w
    /\ inflight.phase = "partial"
    /\ inflight' = [inflight EXCEPT !.phase = "text"]
    /\ UNCHANGED <<sessionFile, toolFile, registry, now, ret, writer, reader>>

\* the whole line is in the file; log_session_event returns
WriterEnd(w) ==
    /\ inflight.by = w
    /\ sessionFile' = [sessionFile EXCEPT !.lines = append_bytes(@, inflight.line)]
    /\ writer' = [writer EXCEPT ![w].pc = "idle", ![w].next = @ + 1,
                                ![w].ok = Append(@, writer[w].next)]
    /\ inflight' = NoAppend
    /\ UNCHANGED <<toolFile, registry, now, ret, reader>>

\* how much of the line in flight is in the file
Reached(phase) == CASE phase = "none" -> 0 [] phase = "partial" -> 1 [] phase = "text" -> 2

\* the reads a reader process makes
Reads ==
    {[op |-> "get_session_history", args |-> Query(None, None, None, None, DefaultLimit)],
     [op |-> "get_orphan_sessions", args |-> {}]}

\* read_result that returns the newest record first
read_result_newest_first(op, args, seen) ==
    LET scanned == [exists |-> TRUE, lines |-> seen]
        result == IF op = "get_session_history"
                  THEN get_session_history(scanned, args.tenant, args.module,
                                           args.conversation_id, args.event, args.limit)
                  ELSE get_orphan_sessions(scanned, args)
    IN  [i \in 1..Len(result) |-> result[Len(result) + 1 - i]]

\* what the read returns for the lines the scan has yielded
read_result(op, args, seen) ==
    LET scanned == [exists |-> TRUE, lines |-> seen]
    IN  IF op = "get_session_history"
        THEN get_session_history(scanned, args.tenant, args.module,
                                 args.conversation_id, args.event, args.limit)
        ELSE get_orphan_sessions(scanned, args)

\* SESSION_LOG_FILE.exists() and open(SESSION_LOG_FILE, "r")
ReaderOpen ==
    /\ reader.pc = "idle"
    /\ \E r \in Reads :
          IF ~sessionFile.exists
          THEN /\ reader' = [IdleReader EXCEPT !.pc = "done", !.op = r.op,
                                               !.args = r.args]
               /\ ret' = Outcome(r.op, r.args, <<>>, "", <<>>, "none")
          ELSE /\ reader' = [IdleReader EXCEPT !.pc = "scan", !.op = r.op,
                                               !.args = r.args]
               /\ UNCHANGED ret
    /\ UNCHANGED <<sessionFile, toolFile, registry, now, writer, inflight>>

\* one turn of `for line in f`: the next line of the file, or the bytes of
\* the append in flight that are there and were not read yet.  A piece of a
\* line's text is not JSON; the whole text without its newline is; the
\* newline alone is a blank line.
ReaderLine ==
    /\ reader.pc = "scan"
    /\ IF reader.pos < Len(sessionFile.lines)
       THEN LET line == CASE reader.consumed = "none" -> sessionFile.lines[reader.pos + 1]
                          [] reader.consumed = "partial" -> Malformed
                          [] reader.consumed = "text" -> Blank
            IN  reader' = [reader EXCEPT !.seen = Append(@, line), !.pos = @ + 1,
                                         !.consumed = "none"]
       ELSE /\ inflight /= NoAppend
            /\ Reached(inflight.phase) > Reached(reader.consumed)
            /\ LET piece == IF reader.consumed = "none" /\ inflight.phase = "text"
                            THEN inflight.line ELSE Malformed
               IN  reader' = [reader EXCEPT !.seen = Append(@, piece),
                                            !.consumed = inflight.phase]
    /\ UNCHANGED <<sessionFile, toolFile, registry, now, ret, writer, inflight>>

\* the scan meets the end of the file; the read returns
ReaderClose ==
    /\ reader.pc = "scan"
    /\ ~(reader.pos < Len(sessionFile.lines))
    /\ ~(inflight /= NoAppend /\ Reached(inflight.phase) > Reached(reader.consumed))
    /\ reader' = [reader EXCEPT !.pc = "done"]
    /\ ret' = Outcome(reader.op, reader.args,
                      read_result(reader.op, reader.args, reader.seen), "", <<>>, "none")
    /\ UNCHANGED <<sessionFile, toolFile, registry, now, writer, inflight>>

InitConcurrent ==
    /\ sessionFile \in {[exists |-> FALSE, lines |-> <<>>],
                        [exists |-> TRUE, lines |-> <<PriorLine(PriorCall), Malformed>>]}
    /\ toolFile = [exists |-> FALSE, lines |-> <<>>]
    /\ now = 0
    /\ registry = EmptyMap
    /\ ret = Outcome("init", None, None, "", <<>>, "none")
    /\ writer = [w \in Writers |-> IdleWriter]
    /\ inflight = NoAppend
    /\ reader = IdleReader

NextConcurrent ==
    \/ \E w \in Writers : WriterBegin(w)
    \/ \E w \in Writers : WriterProgress(w)
    \/ \E w \in Writers : WriterEnd(w)
    \/ ReaderOpen
    \/ ReaderLine
    \/ ReaderClose
SpecConcurrent == InitConcurrent /\ [][NextConcurrent]_vars

(***************************************************************************)
(* The readers on a session log that other programs and interrupted        *)
(* writes have left lines of invalid JSON in, or that is not there.        *)
(***************************************************************************)
SecondCall == SessionCall(Str("session_idle"), TN, Str("C2"), None, None)

DamagedSessionFiles ==
    {[exists |-> FALSE, lines |-> <<>>],
     [exists |-> TRUE, lines |-> <<Malformed>>],
     [exists |-> TRUE, lines |-> <<Malformed, PriorLine(PriorCall)>>],
     [exists |-> TRUE, lines |-> <<PriorLine(PriorCall), Malformed>>],
     [exists |-> TRUE, lines |-> <<PriorLine(PriorCall), Malformed, PriorLine(SecondCall)>>],
     [exists |-> TRUE, lines |-> <<Malformed, PriorLine(SecondCall), Blank, Malformed,
                                   PriorLine(PriorCall), Malformed>>]}

InitDamaged ==
    /\ sessionFile \in DamagedSessionFiles
    /\ toolFile = [exists |-> FALSE, lines |-> <<>>]
    /\ now = 0
    /\ registry = EmptyMap
    /\ ret = Outcome("init", None, None, "", <<>>, "none")
    /\ writer = [w \in Writers |-> IdleWriter]
    /\ inflight = NoAppend
    /\ reader = IdleReader

NextDamaged == RecordSessionEvent \/ GetSessionHistory \/ GetOrphanSessions
SpecDamaged == InitDamaged /\ [][NextDamaged]_vars

(***************************************************************************)
(* Properties.                                                             *)
(***************************************************************************)
Range(s) == {s[i] : i \in 1..Len(s)}

\* the parseable lines of a file and the records they hold
ParseableAt(lines) == {i \in 1..Len(lines) : lines[i].kind = "json"}
RecordAt(lines, i) == json_loads(lines[i].text).val
KeyOf(r) == <<Get(r, "tenant"), Get(r, "module")>>

\* line i holds the last parseable record of its (tenant, module) key
IsLastForKey(lines, i) ==
    \A j \in ParseableAt(lines) : j > i => KeyOf(RecordAt(lines, j)) /= KeyOf(RecordAt(lines, i))

\* a record carries a conversation id: the field is neither null nor empty
HasConversationId(r) ==
    Get(r, "conversation_id") /= None /\ Get(r, "conversation_id") /= Str("")

IsTerminal(r) ==
    Get(r, "event") = Str("session_killed") \/ Get(r, "event") = Str("session_disconnected")

ExpectedOrphans(lines, active) ==
    {RecordAt(lines, i) : i \in {j \in ParseableAt(lines) :
        /\ IsLastForKey(lines, j)
        /\ ~IsTerminal(RecordAt(lines, j))
        /\ HasConversationId(RecordAt(lines, j))
        /\ Get(RecordAt(lines, j), "conversation_id") \notin active}}

OrphansExact(result, lines, active) ==
    /\ Range(result) = ExpectedOrphans(lines, active)
    /\ Len(result) = Cardinality(ExpectedOrphans(lines, active))

\* C1: for every content of the session log and every active set,
\* get_orphan_sessions returns exactly (each once, nothing else) the records
\* that are the last parseable record of their (tenant, module) key, whose
\* event is not session_killed / session_disconnected, that carry a
\* conversation id (non-null, non-empty) and whose id is not active.
C1_OrphansExactlyLastOpenInactive ==
    /\ ret.op = "get_orphan_sessions" =>
          OrphansExact(ret.result, sessionFile.lines, ret.args)
    /\ \A active \in ActiveSets :
          OrphansExact(get_orphan_sessions(sessionFile, active), sessionFile.lines, active)

\* an orphan was reported for a key whose earlier record was superseded
C1_Witness ==
    /\ ret.op = "get_orphan_sessions"
    /\ Len(ret.result) = 1
    /\ Len(sessionFile.lines) = 2
    /\ ParseableAt(sessionFile.lines) = {1, 2}
    /\ KeyOf(RecordAt(sessionFile.lines, 1)) = KeyOf(RecordAt(sessionFile.lines, 2))
    /\ ret.result[1] = RecordAt(sessionFile.lines, 2)
    /\ ret.args /= {}

\* the entries the reduction of get_orphan_sessions holds for a key
EntriesFor(items, key) == {items[j].entry : j \in {n \in 1..Len(items) : items[n].key = key}}
Reduced(lines) == scan_sessions(lines, Len(lines))
AllKeys == {<<t, m>> : t \in {None, Str(""), Str("T"), Str("U")},
                       m \in {None, Str(""), Str("M"), Str("N")}}

\* the record agrees with the arguments of the log_session_event call
RecordOfCall(r, call) ==
    /\ Get(r, "event") = call.event
    /\ Get(r, "tenant") = call.tenant
    /\ Get(r, "module") = call.module
    /\ Get(r, "conversation_id") = call.conversation_id

\* C2: whenever log_session_event appends a record, the reduction that orphan
\* detection computes holds, for that record's (tenant, module) key, exactly
\* the record just appended, whatever was appended before; the entries of all
\* other keys are what they were; and the reduction has one entry per key.
C2_LastWriteWinsPerKey ==
    [][Len(sessionFile'.lines) = Len(sessionFile.lines) + 1 =>
        LET lines == sessionFile'.lines
            new == RecordAt(lines, Len(lines))
            after == Reduced(lines)
            before == Reduced(sessionFile.lines)
        IN  /\ ret'.op = "log_session_event"
            /\ RecordOfCall(new, ret'.args)
            /\ EntriesFor(after, KeyOf(new)) = {new}
            /\ \A k \in AllKeys \ {KeyOf(new)} :
                  EntriesFor(after, k) = EntriesFor(before, k)
            /\ \A i, j \in 1..Len(after) : after[i].key = after[j].key => i = j
    ]_vars

\* a second event for a key has replaced the first one in the reduction
C2_Witness ==
    /\ ret.op = "log_session_event"
    /\ ret.stderr = <<>>
    /\ Len(sessionFile.lines) = 2
    /\ ParseableAt(sessionFile.lines) = {1, 2}
    /\ KeyOf(RecordAt(sessionFile.lines, 1)) = KeyOf(RecordAt(sessionFile.lines, 2))
    /\ Get(RecordAt(sessionFile.lines, 1), "event") /= Get(RecordAt(sessionFile.lines, 2), "event")
    /\ EntriesFor(Reduced(sessionFile.lines), KeyOf(RecordAt(sessionFile.lines, 2)))
          = {RecordAt(sessionFile.lines, 2)}

\* the parseable records of a key, by line
LinesOfKey(lines, key) == {i \in ParseableAt(lines) : KeyOf(RecordAt(lines, i)) = key}
OfKey(result, key) == {r \in Range(result) : KeyOf(r) = key}

OrphanFlagFollowsLifecycle(result, lines, active) ==
    \A key \in AllKeys :
       /\ \A i \in LinesOfKey(lines, key) :
             (/\ LinesOfKey(lines, key) = {i}
              /\ ~IsTerminal(RecordAt(lines, i))
              /\ HasConversationId(RecordAt(lines, i)))
             => IF Get(RecordAt(lines, i), "conversation_id") \in active
                THEN OfKey(result, key) = {}
                ELSE OfKey(result, key) = {RecordAt(lines, i)}
       /\ \A i \in LinesOfKey(lines, key) :
             (IsLastForKey(lines, i) /\ IsTerminal(RecordAt(lines, i)))
             => OfKey(result, key) = {}

\* C3: a key whose only record is a non-terminal event with conversation id
\* C is reported (with that record) exactly when C is not active; a key whose
\* latest record is session_killed or session_disconnected is reported for
\* no active set, in every state from the append of that event on.
C3_TerminalEventSuppressesFlag ==
    /\ ret.op = "get_orphan_sessions" =>
          OrphanFlagFollowsLifecycle(ret.result, sessionFile.lines, ret.args)
    /\ \A active \in ActiveSets :
          OrphanFlagFollowsLifecycle(get_orphan_sessions(sessionFile, active),
                                     sessionFile.lines, active)

\* detection with an empty active set after a terminal event closed a key
\* whose earlier record was open
C3_Witness ==
    /\ ret.op = "get_orphan_sessions"
    /\ ret.args = {}
    /\ ret.result = <<>>
    /\ Len(sessionFile.lines) = 2
    /\ ParseableAt(sessionFile.lines) = {1, 2}
    /\ KeyOf(RecordAt(sessionFile.lines, 1)) = KeyOf(RecordAt(sessionFile.lines, 2))
    /\ ~IsTerminal(RecordAt(sessionFile.lines, 1))
    /\ HasConversationId(RecordAt(sessionFile.lines, 1))
    /\ Get(RecordAt(sessionFile.lines, 2), "event") = Str("session_disconnected")

\* the records of the parseable lines, in file order
IsJson(line) == line.kind = "json"
ParsedRecords(lines) ==
    LET js == SelectSeq(lines, IsJson)
    IN  [i \in 1..Len(js) |-> json_loads(js[i].text).val]

FilterFields == {"tenant", "module", "conversation_id", "event"}

\* a filter argument was passed by the caller
Supplied(v) == v /= None
\* a filter argument was passed and is not the empty string
SuppliedNonEmpty(v) == v /= None /\ v /= Str("")

MatchesSupplied(lines, a) ==
    LET ok(r) == \A f \in FilterFields : Supplied(a[f]) => Get(r, f) = a[f]
    IN  SelectSeq(ParsedRecords(lines), ok)

MatchesNonEmpty(lines, a) ==
    LET ok(r) == \A f \in FilterFields : SuppliedNonEmpty(a[f]) => Get(r, f) = a[f]
    IN  SelectSeq(ParsedRecords(lines), ok)

Unlimited(a) == a.limit >= MaxLog + 1

\* C4 (as claimed): for every combination of filters a query returns, before
\* the limit is applied, exactly the records whose fields equal every filter
\* passed by the caller; every filter that is passed constrains the result.
C4_EverySuppliedFilterConstrains ==
    (ret.op = "get_session_history" /\ Unlimited(ret.args)) =>
        ret.result = MatchesSupplied(sessionFile.lines, ret.args)

\* C4 (amended): for every combination of filters the records found before
\* the limit is applied are exactly the records whose fields equal every
\* filter passed with a non-empty value; a filter that is omitted or is the
\* empty string imposes no constraint.
C4_NonEmptyFiltersConjunction ==
    /\ \A a \in AllQueryArgs :
          history_scan(sessionFile.lines, Len(sessionFile.lines), a.tenant, a.module,
                       a.conversation_id, a.event) = MatchesNonEmpty(sessionFile.lines, a)
    /\ (ret.op = "get_session_history" /\ Unlimited(ret.args)) =>
          ret.result = MatchesNonEmpty(sessionFile.lines, ret.args)

\* a query with all four filters kept one of two records
C4_Witness ==
    /\ ret.op = "get_session_history"
    /\ \A f \in FilterFields : SuppliedNonEmpty(ret.args[f])
    /\ Unlimited(ret.args)
    /\ Len(ParsedRecords(sessionFile.lines)) = 2
    /\ Len(ret.result) = 1

\* C5: a query with limit k returns at most k records, and when more than k
\* records match it returns exactly the last k matches, in file order.
C5_AtMostLimitLastMatches ==
    ret.op = "get_session_history" =>
        LET m == MatchesNonEmpty(sessionFile.lines, ret.args)
            k == ret.args.limit
        IN  /\ Len(ret.result) <= k
            /\ Len(m) > k => ret.result = SubSeq(m, Len(m) - k + 1, Len(m))

\* the record log_session_event is asked to write, field by field
SuppliedRecord(call) ==
    [type |-> Str("session_event"),
     event |-> call.event,
     tenant |-> call.tenant,
     module |-> call.module,
     conversation_id |-> call.conversation_id,
     details |-> IF call.details = None THEN Dict(EmptyMap) ELSE call.details,
     duration_seconds |-> call.duration_seconds]

\* r is rec with the single extra field logged_at
VerbatimPlusLoggedAt(r, rec) ==
    /\ DOMAIN r = DOMAIN rec \cup {"logged_at"}
    /\ \A k \in DOMAIN rec : r[k] = rec[k]

UnfilteredQuery(file) == get_session_history(file, None, None, None, None, DefaultLimit)

\* C6: when log_session_event appends a record, the unfiltered query that
\* follows returns it as its last element with every field equal to what the
\* caller passed plus logged_at; and an unfiltered query returns the records
\* of the file as they were written (the most recent DefaultLimit of them).
C6_AppendReadRoundTrip ==
    /\ [][Len(sessionFile'.lines) = Len(sessionFile.lines) + 1 =>
            LET res == UnfilteredQuery(sessionFile')
            IN  /\ Len(res) > 0
                /\ VerbatimPlusLoggedAt(res[Len(res)], SuppliedRecord(ret'.args))
                /\ SubSeq(res, 1, Len(res) - 1) =
                      SliceFrom(UnfilteredQuery(sessionFile), 1 - DefaultLimit)
       ]_vars
    /\ []((/\ ret.op = "get_session_history"
            /\ ret.args.limit = DefaultLimit
            /\ \A f \in FilterFields : ret.args[f] = None)
           => ret.result = UnfilteredQuery(sessionFile))

\* a record with details and a duration was appended and read back
C6_Witness ==
    /\ ret.op = "log_session_event"
    /\ ret.stderr = <<>>
    /\ ret.args.details /= None
    /\ ret.args.duration_seconds = Float(2)
    /\ Len(UnfilteredQuery(sessionFile)) = 2
    /\ VerbatimPlusLoggedAt(UnfilteredQuery(sessionFile)[2], SuppliedRecord(ret.args))

\* the arguments mapping a tool-call operation was given
ToolArgumentsOf(r) ==
    IF r.op = "call_tool" THEN r.args.arguments ELSE r.args.arguments

IsWriter(r) == r.op \in {"log_session_event", "log_tool_call", "call_tool"}

\* the operation built its record and handed it to _write_log
WriteAttempted(r) ==
    \/ r.op = "log_session_event"
    \/ /\ r.op \in {"log_tool_call", "call_tool"}
       /\ "command" \in DOMAIN ToolArgumentsOf(r) =>
             ToolArgumentsOf(r)["command"].ty = "str"

HasOpaque(m) == \E k \in DOMAIN m : m[k] = Opaque

\* the record cannot be serialized
Unserializable(r) ==
    IF r.op = "log_session_event"
    THEN r.args.details.ty = "dict" /\ HasOpaque(r.args.details.val)
    ELSE HasOpaque(ToolArgumentsOf(r))

\* the write met a failure: open or write refused, or no JSON encoding
WriteFailed(r) == r.fault /= "none" \/ Unserializable(r)

\* the exception (if any) the operation raised came from the write
NothingRaisedByWrite(r) ==
    IF r.op = "call_tool" THEN r.raised = r.dispatch.raised ELSE r.raised = ""

C8_ToolCallLoggingNeverFails ==
    /\ ret.op = "log_tool_call" => ret.raised = ""
    /\ ret.op = "call_tool" =>
          /\ ret.raised = ret.dispatch.raised
          /\ ret.result = ret.dispatch.result

Redacted(rec, arguments) ==
    /\ rec["arguments"] = Dict([k \in DOMAIN arguments \ {"command"} |-> arguments[k]])
    /\ "command" \notin DOMAIN rec["arguments"].val
    /\ IF "command" \in DOMAIN arguments
       THEN LET command == arguments["command"].val
                preview == rec["command_preview"]
            IN  /\ preview.ty = "str"
                /\ Len(preview.val) = Min(PreviewLen, Len(command))
                /\ preview.val = SubSeq(command, 1, Len(preview.val))
                /\ Len(command) > PreviewLen =>
                      /\ Len(preview.val) = PreviewLen
                      /\ \A k \in DOMAIN rec : rec[k] /= Str(command)
       ELSE rec["command_preview"] = None

\* C9: every record appended to the tool-call log holds the caller's
\* arguments without the key "command"; command_preview is the first
\* min(100, length) characters of the command when there is one (exactly 100
\* for a longer command) and null otherwise; no field of the record holds a
\* command longer than 100 characters.
C9_CommandRedacted ==
    [][Len(toolFile'.lines) = Len(toolFile.lines) + 1 =>
        /\ ret'.op \in {"log_tool_call", "call_tool"}
        /\ Redacted(RecordAt(toolFile'.lines, Len(toolFile'.lines)), ToolArgumentsOf(ret'))
    ]_vars

\* a command of more than 100 characters was logged with a 100-character preview
C9_Witness ==
    /\ ret.op \in {"log_tool_call", "call_tool"}
    /\ "command" \in DOMAIN ToolArgumentsOf(ret)
    /\ ToolArgumentsOf(ret)["command"].ty = "str"
    /\ Len(ToolArgumentsOf(ret)["command"].val) = PreviewLen + 1
    /\ Len(toolFile.lines) = 1
    /\ Len(RecordAt(toolFile.lines, 1)["command_preview"].val) = PreviewLen

IsPrefix(s, t) == Len(s) <= Len(t) /\ SubSeq(t, 1, Len(s)) = s

\* C10: in every step of the subsystem (log_tool_call, call_tool,
\* log_session_event, get_session_history, get_orphan_sessions) the lines of
\* each log file before the step are a prefix of its lines after the step,
\* and a file that exists still exists.
C10_AppendOnly ==
    [][/\ IsPrefix(sessionFile.lines, sessionFile'.lines)
       /\ IsPrefix(toolFile.lines, toolFile'.lines)
       /\ sessionFile.exists => sessionFile'.exists
       /\ toolFile.exists => toolFile'.exists
    ]_vars

\* both files hold lines and a reader has run after the appends
C10_Witness ==
    /\ ret.op \in {"get_session_history", "get_orphan_sessions"}
    /\ Len(sessionFile.lines) = 2
    /\ ParseableAt(sessionFile.lines) = {1, 2}
    /\ Len(toolFile.lines) = 1

(***************************************************************************)
(* Concurrent appends and reads.                                           *)
(***************************************************************************)
\* the record was written by writer process w
WrittenBy(r, w) ==
    /\ Get(r, "conversation_id") = Conversation(w)
    /\ Get(r, "details").ty = "dict"
    /\ "attempt" \in DOMAIN Get(r, "details").val

\* the lines holding records of writer w, and the k-th of them in file order
LinesWrittenBy(lines, w) == {i \in ParseableAt(lines) : WrittenBy(RecordAt(lines, i), w)}
NthOf(S, k) == CHOOSE i \in S : Cardinality({j \in S : j < i}) = k - 1

\* lines no writer process of the model wrote: the content the file had
ForeignLines(lines) ==
    {i \in 1..Len(lines) : \A w \in Writers : i \notin LinesWrittenBy(lines, w)}

RECURSIVE Successes(_)
Successes(ws) ==
    IF ws = {} THEN 0
    ELSE LET w == CHOOSE x \in ws : TRUE
         IN  Len(writer[w].ok) + Successes(ws \ {w})

\* C11: with writer processes appending concurrently and no append
\* interleaved with another at the byte level, the file is at every moment the
\* content it had before, followed by a merge of the writers' sequences: each
\* further line is a parseable JSON object equal to the record of exactly one
\* successful append, each successful append has exactly one line (none lost,
\* none duplicated), and the lines of one writer are in the order it wrote them.
C11_FileIsMergeOfWriters ==
    /\ \A w \in Writers :
          LET mine == LinesWrittenBy(sessionFile.lines, w)
          IN  /\ Cardinality(mine) = Len(writer[w].ok)
              /\ \A k \in 1..Len(writer[w].ok) :
                    VerbatimPlusLoggedAt(RecordAt(sessionFile.lines, NthOf(mine, k)),
                                         SuppliedRecord(WriterCall(w, writer[w].ok[k])))
    /\ \A w1 \in Writers, w2 \in Writers :
          w1 /= w2 => LinesWrittenBy(sessionFile.lines, w1)
                        \cap LinesWrittenBy(sessionFile.lines, w2) = {}
    /\ LET before == Len(sessionFile.lines) - Successes(Writers)
       IN  /\ ForeignLines(sessionFile.lines) = 1..before
           /\ SubSeq(sessionFile.lines, 1, before)
                 \in {<<>>, <<PriorLine(PriorCall), Malformed>>}

\* two writers' records alternate in the file: w1, w2, w1
C11_Witness ==
    /\ writer["w1"].ok = <<1, 2>>
    /\ writer["w2"].ok = <<1>>
    /\ LET n == Len(sessionFile.lines)
       IN  /\ n >= 3
           /\ LinesWrittenBy(sessionFile.lines, "w1") = {n - 2, n}
           /\ LinesWrittenBy(sessionFile.lines, "w2") = {n - 1}

\* a is b with some elements left out
RECURSIVE IsSubsequence(_, _)
IsSubsequence(a, b) ==
    IF Len(a) = 0 THEN TRUE
    ELSE IF Len(b) = 0 THEN FALSE
    ELSE IF a[1] = b[1] THEN IsSubsequence(Tail(a), Tail(b))
    ELSE IsSubsequence(a, Tail(b))

\* the records whose whole JSON text is in the file, in file order
CompleteRecords ==
    ParsedRecords(sessionFile.lines)
    \o (IF inflight.phase = "text" THEN <<json_loads(inflight.line.text).val>> ELSE <<>>)

\* a writer that has a call to make, or an append to finish, can take its step
WritersNeverBlocked ==
    \A w \in Writers :
        /\ (writer[w].pc = "idle" /\ Finished(Writers) < MaxAppends /\ inflight = NoAppend)
              => ENABLED WriterBegin(w)
        /\ inflight.by = w => ENABLED WriterEnd(w)

\* position in the lines the scan yielded of the first record with this key
FirstSeen(seen, key) ==
    LET at == {i \in ParseableAt(seen) : KeyOf(RecordAt(seen, i)) = key}
    IN  CHOOSE i \in at : \A j \in at : i <= j

\* C12 as stated: a read that runs while writers append returns normally,
\* never keeps a writer from its step, and returns only records whose text
\* is completely in the file, in file order - for get_session_history and
\* for get_orphan_sessions alike.
C12_ConcurrentReadInFileOrder ==
    /\ WritersNeverBlocked
    /\ reader.pc = "done" =>
          /\ ret.raised = ""
          /\ IsSubsequence(ret.result, CompleteRecords)

\* C12, amended: as above, except that the records get_orphan_sessions
\* returns (one per (tenant, module) key, each completely in the file) are
\* ordered by the first line of their key that the scan parsed, which need not
\* be their order in the file.
C12_ConcurrentReadReturnsCompleteRecords ==
    /\ WritersNeverBlocked
    /\ reader.pc = "done" =>
          /\ ret.raised = ""
          /\ Range(ret.result) \subseteq Range(CompleteRecords)
          /\ ret.op = "get_session_history" => IsSubsequence(ret.result, CompleteRecords)
          /\ ret.op = "get_orphan_sessions" =>
                \A i \in 1..Len(ret.result), j \in 1..Len(ret.result) :
                    i < j => FirstSeen(reader.seen, KeyOf(ret.result[i]))
                               < FirstSeen(reader.seen, KeyOf(ret.result[j]))

\* a read met a line in the middle of its write, skipped it and returned the
\* complete records around it
C12_Witness ==
    /\ reader.pc = "done"
    /\ ret.op = "get_session_history"
    /\ \E i \in 1..Len(reader.seen) :
          /\ i > 2
          /\ reader.seen[i] = Malformed
          /\ i < Len(reader.seen)
          /\ reader.seen[Len(reader.seen)].kind = "json"
    /\ Len(ret.result) >= 2

(***************************************************************************)
(* Tolerance of the readers.                                               *)
(***************************************************************************)
ReaderOps == {"get_session_history", "get_orphan_sessions"}

IsValidJson(line) == line.kind /= "malformed"

\* the file without its lines of invalid JSON
WithoutMalformed(file) == [file EXCEPT !.lines = SelectSeq(@, IsValidJson)]

\* C13: for every content of the session log, with lines of invalid JSON at
\* any positions, get_session_history (for every filter combination and
\* limit) and get_orphan_sessions (for every active set) return what they
\* return for the log without the invalid lines; the unfiltered query returns
\* exactly the valid records in file order; no read raises.
C13_MalformedLinesSkipped ==
    /\ \A a \in AllQueryArgs :
          get_session_history(sessionFile, a.tenant, a.module, a.conversation_id,
                              a.event, a.limit)
          = get_session_history(WithoutMalformed(sessionFile), a.tenant, a.module,
                                a.conversation_id, a.event, a.limit)
    /\ \A active \in ActiveSets :
          get_orphan_sessions(sessionFile, active)
          = get_orphan_sessions(WithoutMalformed(sessionFile), active)
    /\ UnfilteredQuery(sessionFile) = ParsedRecords(sessionFile.lines)
    /\ ret.op \in ReaderOps => ret.raised = ""
    /\ (ret.op = "get_session_history" /\ ret.args = Query(None, None, None, None, DefaultLimit))
          => IsSubsequence(ret.result, ParsedRecords(sessionFile.lines))

\* a line of invalid JSON between two valid lines; the query returned the two
\* valid records
C13_Witness ==
    /\ Len(sessionFile.lines) = 3
    /\ sessionFile.lines[1].kind = "json"
    /\ sessionFile.lines[2] = Malformed
    /\ sessionFile.lines[3].kind = "json"
    /\ ret.op = "get_session_history"
    /\ ret.args = Query(None, None, None, None, DefaultLimit)
    /\ ret.result = <<RecordAt(sessionFile.lines, 1), RecordAt(sessionFile.lines, 3)>>

\* C14: while SESSION_LOG_FILE does not exist, get_session_history (every
\* filter combination and limit) and get_orphan_sessions (every active set)
\* return the empty list, raise nothing, and the file still does not exist
\* after the read.
C14_MissingFileReadsEmpty ==
    /\ [](~sessionFile.exists =>
            /\ \A a \in AllQueryArgs :
                  get_session_history(sessionFile, a.tenant, a.module,
                                      a.conversation_id, a.event, a.limit) = <<>>
            /\ \A active \in ActiveSets : get_orphan_sessions(sessionFile, active) = <<>>)
    /\ [][(~sessionFile.exists /\ ret'.op \in ReaderOps) =>
            /\ ret'.result = <<>>
            /\ ret'.raised = ""
            /\ ~sessionFile'.exists
            /\ sessionFile' = sessionFile
         ]_vars

\* orphan detection ran on a missing file, after a write that could not
\* create it, and returned the empty list
C14_Witness ==
    /\ ~sessionFile.exists
    /\ ret.op = "get_orphan_sessions"
    /\ ret.args = {Str("C1")}
    /\ ret.result = <<>>
    /\ ret.raised = ""

(***************************************************************************)
(* Frame conditions.                                                       *)
(***************************************************************************)
\* C18: a read (get_session_history, get_orphan_sessions) leaves both log
\* files as they are, and a read that follows a read of the same operation
\* with the same arguments returns the same result.
C18_ReadersNeverWrite ==
    [][(ret'.op \in ReaderOps /\ now' = now) =>
        /\ sessionFile' = sessionFile
        /\ toolFile' = toolFile
        /\ (ret.op = ret'.op /\ ret.args = ret'.args) => ret'.result = ret.result
    ]_vars

\* a query returned two records from a log of two lines
C18_Witness ==
    /\ ret.op = "get_session_history"
    /\ ret.args = Query(None, None, None, None, DefaultLimit)
    /\ Len(ret.result) = 2
    /\ Len(sessionFile.lines) = 2
    /\ sessionFile.exists

ToolOps == {"log_tool_call", "call_tool"}

\* C20: log_tool_call and call_tool change only LOG_FILE and
\* log_session_event changes only SESSION_LOG_FILE; what get_session_history
\* and get_orphan_sessions return is the same before and after a tool-call
\* record is written, and is determined by the session log alone.
C20_LogsIndependent ==
    /\ [][/\ ret'.op \in ToolOps =>
                /\ sessionFile' = sessionFile
                /\ \A a \in CoreQueries :
                      get_session_history(sessionFile', a.tenant, a.module,
                                          a.conversation_id, a.event, a.limit)
                      = get_session_history(sessionFile, a.tenant, a.module,
                                            a.conversation_id, a.event, a.limit)
                /\ \A active \in CoreActiveSets :
                      get_orphan_sessions(sessionFile', active)
                      = get_orphan_sessions(sessionFile, active)
          /\ ret'.op = "log_session_event" => toolFile' = toolFile
       ]_vars
    /\ [](ret.op \in ReaderOps =>
            ret.result = read_result(ret.op, ret.args, sessionFile.lines))

\* orphan detection found a session after a tool-call record was written
C20_Witness ==
    /\ ret.op = "get_orphan_sessions"
    /\ Len(ret.result) = 1
    /\ Len(toolFile.lines) = 1
    /\ toolFile.lines[1].kind = "json"

(***************************************************************************)
(* Time stamps.                                                            *)
(***************************************************************************)
\* the record a step appended to the file, if it appended one
Appended(before, after) == Len(after.lines) = Len(before.lines) + 1
NewRecord(after) == RecordAt(after.lines, Len(after.lines))

StampedNow(before, after) ==
    Appended(before, after) =>
        /\ "logged_at" \in DOMAIN NewRecord(after)
        /\ NewRecord(after)["logged_at"] = Str(isoformat(now))
        /\ now' = now

\* the logged_at values of the parseable lines of a file
Stamps(file) ==
    {Get(RecordAt(file.lines, i), "logged_at") : i \in ParseableAt(file.lines)}

\* C15: every record appended to either log file carries logged_at equal to
\* the clock value at the moment of that write, whatever logged_at the entry
\* handed to _write_log held; every record in the files carries a clock
\* value of the past and none carries the value a caller supplied.
C15_LoggedAtIsWriteClock ==
    /\ [][StampedNow(sessionFile, sessionFile') /\ StampedNow(toolFile, toolFile')]_vars
    /\ [](Stamps(sessionFile) \cup Stamps(toolFile)
            \subseteq {Str(isoformat(t)) : t \in 0..now})

\* an entry holding a caller's logged_at was written after the clock had
\* advanced; the line holds the clock value
C15_Witness ==
    /\ ret.op = "_write_log"
    /\ ret.args = [type |-> Str("note"), logged_at |-> SuppliedStamp]
    /\ ret.fault = "none"
    /\ now = 1
    /\ Len(sessionFile.lines) >= 1
    /\ NewRecord(sessionFile) =
          [type |-> Str("note"), logged_at |-> Str(isoformat(1))]

(***************************************************************************)
(* The tool entry point.                                                   *)
(***************************************************************************)
\* the record agrees with the invocation: tool, duration, outcome
RecordsInvocation(r, outcome) ==
    /\ r["tool"] = Str(outcome.args.name)
    /\ r["duration_ms"].ty = "int"
    /\ r["success"] = Bool(r["error"] = None)
    /\ outcome.dispatch.raised /= "" => r["error"] = Str(outcome.dispatch.message)

\* C16: every invocation of call_tool whose write is not refused appends
\* exactly one record of it (duration and outcome) to the tool-call log,
\* whether the dispatch returned or raised, and the caller gets what the
\* dispatch returned or raised.
C16_EveryInvocationRecorded ==
    [][(/\ ret'.op = "call_tool"
        /\ ret'.fault = "none"
        /\ ~HasOpaque(ret'.args.arguments)) =>
        /\ Len(toolFile'.lines) = Len(toolFile.lines) + 1
        /\ RecordsInvocation(NewRecord(toolFile'), ret')
        /\ ret'.raised = ret'.dispatch.raised
        /\ ret'.result = ret'.dispatch.result
    ]_vars

\* C17: in every record of the tool-call log, success is true exactly when
\* error is null.
C17_SuccessIffNoError ==
    \A i \in ParseableAt(toolFile.lines) :
        LET r == RecordAt(toolFile.lines, i)
        IN  /\ r["success"] \in {Bool(TRUE), Bool(FALSE)}
            /\ r["success"] = Bool(TRUE) <=> r["error"] = None

\* a call whose error is the empty string was recorded as a failure
C17_Witness ==
    \E i \in ParseableAt(toolFile.lines) :
        /\ RecordAt(toolFile.lines, i)["error"] = Str("")
        /\ RecordAt(toolFile.lines, i)["success"] = Bool(FALSE)

StartsWith(text, prefix) ==
    Len(text) >= Len(prefix) /\ SubSeq(text, 1, Len(prefix)) = prefix

\* the invocation names the tool "run", supplies connection, module and
\* command, and its connection is in the registry
Validated(name, arguments) ==
    /\ name = "run"
    /\ \A k \in {"connection", "module", "command"} :
          k \in DOMAIN arguments /\ arguments[k] \notin {None, Str("")}
    /\ arguments["connection"].ty = "str"
    /\ arguments["connection"].val \in DOMAIN registry

\* C19: _call_tool_impl sends a request to the session pool only for a
\* validated invocation, and then exactly one, made of the caller's
\* connection, module and command; for every other invocation it returns an
\* error or listing text and sends nothing; no step changes the registry.
C19_PoolOnlyAfterValidation ==
    /\ [](ret.op = "call_tool" =>
            LET name == ret.args.name
                arguments == ret.args.arguments
                pool == ret.dispatch.pool
            IN  /\ Len(pool) > 0 =>
                      /\ Validated(name, arguments)
                      /\ pool = <<pool_request(arguments["connection"], arguments["module"],
                                               arguments["command"])>>
                /\ ~Validated(name, arguments) =>
                      /\ pool = <<>>
                      /\ ret.dispatch.raised = ""
                      /\ Len(ret.dispatch.result) = 1
                      /\ \/ StartsWith(ret.dispatch.result[1], "Error: ")
                         \/ StartsWith(ret.dispatch.result[1], "**Available Connections:**")
                         \/ StartsWith(ret.dispatch.result[1], "Unknown tool: "))
    /\ [][registry' = registry]_vars

\* a validated invocation reached the session pool and its answer came back
C19_Witness ==
    /\ ret.op = "call_tool"
    /\ Len(ret.dispatch.pool) = 1
    /\ ret.raised = ""
    /\ ret.result = <<"ok">>
    /\ registry /= EmptyMap

====
